---- MODULE Spec2Model ----
(***************************************************************************)
(* A model of PyAlertMe's device-side protocol handler                     *)
(* (src/pyalertme/device.py) and of its terminal console (src/console.py). *)
(*                                                                         *)
(* The sources are Python 2 (console.py uses `except Exception, e` and     *)
(* dict.iteritems; device.py concatenates str and bytes), so a payload     *)
(* `rf_data` is a byte string, rf_data[i] is a one-byte string and         *)
(* rf_data[3] + rf_data[4] is a two-byte string.  Byte strings are         *)
(* sequences of integers 0..255 here; Python index i is TLA+ index i+1.   *)
(***************************************************************************)
EXTENDS Integers, Sequences, FiniteSets, TLC

VARIABLES
    \* ---- Device (src/pyalertme/device.py) ----
    associated,       \* self.associated
    hub_addr_long,    \* self.hub_addr_long
    hub_addr_short,   \* self.hub_addr_short
    mode,             \* self.mode
    byteorder,        \* the platform's native byte order, used by struct.pack('H', ..)
    message,          \* the message handed to the last process_message call
    pre,              \* the device fields as they were when that call began
    sent,             \* the send_message calls made by that call, in order
    logged,           \* the logger calls made by that call, in order
    raised,           \* the exception that call propagated, or "none"
    \* ---- Console (src/console.py) ----
    body,             \* ListView.body: the lines of the output region, oldest first
    focus,            \* the focus position of the output region's list walker
    max_size,         \* ListView.max_size; 0 stands for None
    appended,         \* every line handed to ListView.add so far, in order
    running,          \* the run loop of Commander.loop has not been stopped
    cmd_cb,           \* Commander._cmd: "TestCmd", or "None" when there is no callback
    last_line,        \* the line handed to the last on_line_entered call
    result,           \* what the command callback returned or raised in that call
    put,              \* the lines that call added to the output region, in order
    steps,            \* the number of lines put out or entered so far
    \* ---- Input (src/console.py) ----
    history,          \* Input.history, oldest first
    history_index,    \* Input._history_index
    edit_text,        \* Input.edit_text
    edit_pos,         \* Input.edit_pos: the cursor in the edit text
    key,              \* the key handed to the last Input.keypress call
    before,           \* _history_index and edit_text as they were when that call began
    \* ---- Threads that call Commander.output (src/console.py) ----
    pc,               \* where each thread is in Commander.output and ListView.add
    lock,             \* ListView._lock: the thread that holds it, or "none"
    frame,            \* each thread's locals: its line and was_on_end
    issued            \* the number of Commander.output calls each thread has begun

devvars == <<associated, hub_addr_long, hub_addr_short, mode, byteorder,
             message, pre, sent, logged, raised>>

convars == <<body, focus, max_size, appended, running, cmd_cb, last_line, result,
             put, steps>>

inpvars == <<history, history_index, edit_text, edit_pos, key, before>>

thrvars == <<pc, lock, frame, issued>>

vars == <<devvars, convars, inpvars, thrvars>>

(***************************************************************************)
(* Values                                                                  *)
(***************************************************************************)

\* Python's None, as a value no byte string equals.
None == << -1 >>

\* Base.ZDP_PROFILE_ID: the ZigBee Device Profile id.
ZDP_PROFILE_ID == <<0, 0>>

\* Base.ALERTME_PROFILE_ID: the AlertMe application profile id.
ALERTME_PROFILE_ID == <<194, 22>>

\* Device.__init__: the static identity and the reported signal strength.
manu == <<80, 121, 65, 108, 101, 114, 116, 77, 101>>

type == <<71, 101, 110, 101, 114, 105, 99, 32, 68, 101, 118, 105, 99, 101>>

date == <<50, 48, 49, 55, 45, 48, 49, 45, 48, 49>>

version == 12345

rssi == 197

\* Python's s[i] on a byte string and the test that it does not raise IndexError.
HasIdx(s, i) == i < Len(s)

Idx(s, i) == s[i + 1]

\* struct.pack('H', v): an unsigned 16-bit value in the native byte order.
pack_H(v, order) ==
    IF order = "little" THEN << v % 256, (v \div 256) % 256 >>
    ELSE << (v \div 256) % 256, v % 256 >>

(***************************************************************************)
(* Outbound message generators                                             *)
(***************************************************************************)

generate_type_update ==
    LET checksum == <<9, 113>>
        cluster_cmd == <<254>>
        payload == pack_H(version, byteorder)
                   \o <<248, 185, 187, 3, 0, 111, 13, 0, 57, 16, 7, 0, 0, 41, 0, 1, 11>>
                   \o manu
                   \o <<10>> \o type
                   \o <<10>> \o date
    IN [description |-> "Type Info",
        profile |-> ALERTME_PROFILE_ID,
        cluster |-> <<0, 246>>,
        src_endpoint |-> <<0>>,
        dest_endpoint |-> <<2>>,
        data |-> checksum \o cluster_cmd \o payload]

\* A Range Update built with the Type Update's checksum bytes.
generate_range_update_TypeChecksum ==
    [description |-> "Range Info",
     profile |-> ALERTME_PROFILE_ID,
     cluster |-> <<0, 246>>,
     src_endpoint |-> <<0>>,
     dest_endpoint |-> <<2>>,
     data |-> <<9, 113>> \o <<253>> \o pack_H(rssi, byteorder)]

generate_range_update ==
    LET checksum == <<9, 43>>
        cluster_cmd == <<253>>
        payload == pack_H(rssi, byteorder)
    IN [description |-> "Range Info",
        profile |-> ALERTME_PROFILE_ID,
        cluster |-> <<0, 246>>,
        src_endpoint |-> <<0>>,
        dest_endpoint |-> <<2>>,
        data |-> checksum \o cluster_cmd \o payload]

generate_match_descriptor_request ==
    [description |-> "Match Descriptor Request",
     profile |-> ZDP_PROFILE_ID,
     cluster |-> <<0, 6>>,
     src_endpoint |-> <<0>>,
     dest_endpoint |-> <<0>>,
     data |-> <<3, 253, 255, 22, 194, 0, 1, 240, 0>>]

(***************************************************************************)
(* process_message.  `self` is the record of the device's fields together  *)
(* with what the call has sent, logged and raised so far.                  *)
(***************************************************************************)

\* Base.send_message(message, dest_addr_long, dest_addr_short): the send primitive.
send_message(self, msg, dest_addr_long, dest_addr_short) ==
    [self EXCEPT !.sent = Append(@, [message |-> msg,
                                     dest_addr_long |-> dest_addr_long,
                                     dest_addr_short |-> dest_addr_short])]

\* self._logger.debug / self._logger.error
log(self, level, text) ==
    [self EXCEPT !.logged = Append(@, [level |-> level, text |-> text])]

\* An exception leaves the handler at once.
raise(self, exc) == [self EXCEPT !.raised = exc]

\* Base.process_message: the handling common to all device kinds.
Base_process_message(self, m) == self

\* The Match Descriptor Request goes to the remembered hub, not to the sender.
Discover_ToHub(self, m) ==
    IF self.associated = FALSE
    THEN send_message(self, generate_match_descriptor_request,
                      self.hub_addr_long, self.hub_addr_short)
    ELSE self

\* The Match Descriptor Request is sent whether or not the device is associated.
Discover_Always(self, m) ==
    send_message(self, generate_match_descriptor_request,
                 m.source_addr_long, m.source_addr)

\* Lines 48-49: a device that is not associated advertises itself to the sender.
Discover(self, m) ==
    IF self.associated = FALSE
    THEN send_message(self, generate_match_descriptor_request,
                      m.source_addr_long, m.source_addr)
    ELSE self

\* Lines 51-60: ZigBee Device Profile frames are only logged.
ZdpFrame(self, m) ==
    IF m.cluster = <<0, 50>>
    THEN log(self, "debug", "Received Management Routing Table Request")
    ELSE IF m.cluster = <<0, 5>>
    THEN log(self, "debug", "Received Active Endpoint Request")
    ELSE IF m.cluster = <<128, 6>>
    THEN log(self, "debug", "Received Match Descriptor Response")
    ELSE self

\* A Version Request that also records its sender as the hub.
VersionRequest_Associate(self, m) ==
    [send_message(log(self, "debug", "Received Version Request"),
                  generate_type_update, self.hub_addr_long, self.hub_addr_short)
        EXCEPT !.hub_addr_long = m.source_addr_long,
               !.hub_addr_short = m.source_addr,
               !.associated = TRUE]

\* The Type Update goes back to the sender of the Version Request.
VersionRequest_ToSender(self, m) ==
    send_message(log(self, "debug", "Received Version Request"),
                 generate_type_update, m.source_addr_long, m.source_addr)

\* Lines 71-74: a Version Request is answered with a Type Update to the hub.
VersionRequest(self, m) ==
    send_message(log(self, "debug", "Received Version Request"),
                 generate_type_update, self.hub_addr_long, self.hub_addr_short)

\* Every mode change reports the range, not only Range Test.
SetMode_AlwaysReport(self, modeCmd) ==
    LET name == IF modeCmd = <<0, 1>> THEN "NORMAL"
                ELSE IF modeCmd = <<1, 1>> THEN "RANGE"
                ELSE IF modeCmd = <<2, 1>> THEN "LOCKED"
                ELSE IF modeCmd = <<3, 1>> THEN "SILENT"
                ELSE "none"
    IN IF name = "none" THEN self
       ELSE send_message([log(self, "debug", "Mode") EXCEPT !.mode = name],
                         generate_range_update, self.hub_addr_long, self.hub_addr_short)

\* An unrecognized sub-code falls back to Normal mode.
SetMode_DefaultNormal(self, modeCmd) ==
    IF modeCmd = <<1, 1>>
    THEN LET s == [log(self, "debug", "Range Test Mode") EXCEPT !.mode = "RANGE"]
         IN send_message(s, generate_range_update, s.hub_addr_long, s.hub_addr_short)
    ELSE IF modeCmd = <<2, 1>>
    THEN [log(self, "debug", "Locked Mode") EXCEPT !.mode = "LOCKED"]
    ELSE IF modeCmd = <<3, 1>>
    THEN [log(self, "debug", "Silent Mode") EXCEPT !.mode = "SILENT"]
    ELSE [log(self, "debug", "Normal Mode") EXCEPT !.mode = "NORMAL"]

\* Lines 86-110: the mode sub-code selects the mode.
SetMode(self, modeCmd) ==
    IF modeCmd = <<0, 1>>
    THEN [log(self, "debug", "Normal Mode") EXCEPT !.mode = "NORMAL"]
    ELSE IF modeCmd = <<1, 1>>
    THEN LET s == [log(self, "debug", "Range Test Mode") EXCEPT !.mode = "RANGE"]
         IN send_message(s, generate_range_update, s.hub_addr_long, s.hub_addr_short)
    ELSE IF modeCmd = <<2, 1>>
    THEN [log(self, "debug", "Locked Mode") EXCEPT !.mode = "LOCKED"]
    ELSE IF modeCmd = <<3, 1>>
    THEN [log(self, "debug", "Silent Mode") EXCEPT !.mode = "SILENT"]
    ELSE self

\* Only the first Mode Change Request names the hub.
Associate_KeepFirst(self, m) ==
    IF self.associated
    THEN log(self, "debug", "Received Mode Change Request")
    ELSE [log(self, "debug", "Received Mode Change Request")
             EXCEPT !.hub_addr_long = m.source_addr_long,
                    !.hub_addr_short = m.source_addr,
                    !.associated = TRUE]

\* Lines 78-83: the sender of a Mode Change Request becomes the hub.
Associate(self, m) ==
    [log(self, "debug", "Received Mode Change Request")
        EXCEPT !.hub_addr_long = m.source_addr_long,
               !.hub_addr_short = m.source_addr,
               !.associated = TRUE]

\* Cluster 0x00F0 handled without looking at the command byte.
ModeControl_AnyCommand(self, m, cluster_cmd) ==
    LET s == Associate(self, m)
    IN IF HasIdx(m.rf_data, 3) /\ HasIdx(m.rf_data, 4)
       THEN SetMode(s, <<Idx(m.rf_data, 3)>> \o <<Idx(m.rf_data, 4)>>)
       ELSE raise(s, "IndexError")

\* Cluster 0x00F0 where any other command byte makes the device forget its hub.
ModeControl_Forget(self, m, cluster_cmd) ==
    IF cluster_cmd = <<250>>
    THEN LET s == Associate(self, m)
         IN IF HasIdx(m.rf_data, 3) /\ HasIdx(m.rf_data, 4)
            THEN SetMode(s, <<Idx(m.rf_data, 3)>> \o <<Idx(m.rf_data, 4)>>)
            ELSE raise(s, "IndexError")
    ELSE [self EXCEPT !.associated = FALSE, !.hub_addr_long = None,
                      !.hub_addr_short = None]

\* Cluster 0x00F0 where the sub-code is read before the hub is recorded.
ModeControl_ReadFirst(self, m, cluster_cmd) ==
    IF cluster_cmd = <<250>>
    THEN IF HasIdx(m.rf_data, 3) /\ HasIdx(m.rf_data, 4)
         THEN SetMode(Associate(self, m), <<Idx(m.rf_data, 3)>> \o <<Idx(m.rf_data, 4)>>)
         ELSE raise(self, "IndexError")
    ELSE self

\* Lines 76-110: cluster 0x00F0.
ModeControl(self, m, cluster_cmd) ==
    IF cluster_cmd = <<250>>
    THEN LET s == Associate(self, m)
         IN IF HasIdx(m.rf_data, 3) /\ HasIdx(m.rf_data, 4)
            THEN SetMode(s, <<Idx(m.rf_data, 3)>> \o <<Idx(m.rf_data, 4)>>)
            ELSE raise(s, "IndexError")
    ELSE self

\* Lines 62-110: AlertMe profile frames.
AlertMeFrame(self, m) ==
    IF ~HasIdx(m.rf_data, 2)
    THEN raise(self, "IndexError")
    ELSE LET cluster_cmd == <<Idx(m.rf_data, 2)>>
         IN IF m.cluster = <<0, 246>>
            THEN VersionRequest(self, m)
            ELSE IF m.cluster = <<0, 240>>
            THEN ModeControl(self, m, cluster_cmd)
            ELSE self

\* An unknown profile id logged as an error and then handled as an AlertMe frame.
UnrecognisedProfile_AsAlertMe(self, m) ==
    AlertMeFrame(log(self, "error", "Unrecognised Profile ID: %r"), m)

\* Lines 112-113: any other profile id is logged as an error.
UnrecognisedProfile(self, m) ==
    log(self, "error", "Unrecognised Profile ID: %r")

\* Lines 42-113: explicit frames.
ExplicitFrame(self, m) ==
    LET s == Discover(self, m)
    IN IF m.profile = ZDP_PROFILE_ID
       THEN ZdpFrame(s, m)
       ELSE IF m.profile = ALERTME_PROFILE_ID
       THEN AlertMeFrame(s, m)
       ELSE UnrecognisedProfile(s, m)

process_message(self, m) ==
    LET s == Base_process_message(self, m)
    IN IF m.id = "rx_explicit"
       THEN ExplicitFrame(s, m)
       ELSE s

(***************************************************************************)
(* Inbound messages                                                        *)
(***************************************************************************)

Senders ==
    { [long |-> <<0, 13, 111, 0, 0, 0, 0, 1>>, short |-> <<18, 52>>],
      [long |-> <<0, 13, 111, 0, 0, 0, 0, 2>>, short |-> <<86, 120>>] }

\* The payload of a Mode Change Request for Range Test mode.
RangePayload == <<17, 0, 250, 1, 1>>

\* Payloads: too short for the command byte, too short for the sub-code, the
\* four recognized sub-codes, two unrecognized ones, and other command bytes.
Payloads ==
    { <<>>,
      <<17, 0>>,
      <<17, 0, 250>>,
      <<17, 0, 250, 1>>,
      <<17, 0, 250, 0, 1>>,
      RangePayload,
      <<17, 0, 250, 2, 1>>,
      <<17, 0, 250, 3, 1>>,
      <<17, 0, 250, 4, 1>>,
      <<17, 0, 250, 1, 0>>,
      <<17, 0, 252, 0, 1>>,
      <<17, 0, 251, 1, 1>> }

Frame(p, c, s, d) ==
    [id |-> "rx_explicit", profile |-> p, cluster |-> c,
     source_addr_long |-> s.long, source_addr |-> s.short, rf_data |-> d]

\* AlertMe frames carry every payload; frames of the other profiles carry an
\* empty payload or the Range Test payload on the AlertMe and ZDP clusters.
ExplicitFrames ==
    { Frame(ALERTME_PROFILE_ID, c, s, d) :
        c \in { <<0, 246>>, <<0, 240>>, <<0, 239>> }, s \in Senders, d \in Payloads }
    \cup
    { Frame(ZDP_PROFILE_ID, c, s, d) :
        c \in { <<0, 50>>, <<0, 5>>, <<128, 6>>, <<0, 6>>, <<0, 240>> },
        s \in Senders, d \in { <<>>, RangePayload } }
    \cup
    { Frame(<<1, 4>>, c, s, d) :
        c \in { <<0, 50>>, <<0, 246>>, <<0, 240>> },
        s \in Senders, d \in { <<>>, RangePayload } }

OtherMessages ==
    { [id |-> k, profile |-> None, cluster |-> None,
       source_addr_long |-> s.long, source_addr |-> s.short, rf_data |-> RangePayload] :
      k \in {"rx", "tx_status"}, s \in Senders }

Messages == ExplicitFrames \cup OtherMessages

NoMessage ==
    [id |-> "none", profile |-> None, cluster |-> None,
     source_addr_long |-> None, source_addr |-> None, rf_data |-> <<>>]

(***************************************************************************)
(* The device as a state machine                                           *)
(***************************************************************************)

Fields ==
    [associated |-> associated, hub_addr_long |-> hub_addr_long,
     hub_addr_short |-> hub_addr_short, mode |-> mode]

\* Device.__init__
DeviceInit ==
    /\ associated = FALSE
    /\ hub_addr_long = None
    /\ hub_addr_short = None
    /\ mode = "NORMAL"
    /\ byteorder \in {"little", "big"}
    /\ message = NoMessage
    /\ pre = [associated |-> FALSE, hub_addr_long |-> None,
              hub_addr_short |-> None, mode |-> "NORMAL"]
    /\ sent = <<>>
    /\ logged = <<>>
    /\ raised = "none"

\* One call of Device.process_message, whether it returns or raises.
ProcessMessage ==
    \E m \in Messages :
        LET self == [associated |-> associated, hub_addr_long |-> hub_addr_long,
                     hub_addr_short |-> hub_addr_short, mode |-> mode,
                     sent |-> <<>>, logged |-> <<>>, raised |-> "none"]
            r == process_message(self, m)
        IN /\ message' = m
           /\ pre' = Fields
           /\ associated' = r.associated
           /\ hub_addr_long' = r.hub_addr_long
           /\ hub_addr_short' = r.hub_addr_short
           /\ mode' = r.mode
           /\ sent' = r.sent
           /\ logged' = r.logged
           /\ raised' = r.raised
           /\ UNCHANGED byteorder

(***************************************************************************)
(* Text.  A Python string is a sequence of one-character strings.          *)
(***************************************************************************)

Space == " "

UpperCase == <<"A", "B", "C", "D", "E", "F", "G", "H", "I", "J", "K", "L", "M", "N", "O", "P", "Q", "R", "S", "T", "U", "V", "W", "X", "Y", "Z">>

LowerCase == <<"a", "b", "c", "d", "e", "f", "g", "h", "i", "j", "k", "l", "m", "n", "o", "p", "q", "r", "s", "t", "u", "v", "w", "x", "y", "z">>

Digits == <<"0", "1", "2", "3", "4", "5", "6", "7", "8", "9">>

\* The characters of the model's texts in ASCII order, for sorted().
AsciiOrder ==
    <<"\n", " ", "!", "0", "1", "2", "3", "4", "5", "6", "7", "8", "9", ":", "?", "A",
       "B", "C", "D", "E", "F", "G", "H", "I", "J", "K", "L", "M", "N", "O", "P", "Q",
       "R", "S", "T", "U", "V", "W", "X", "Y", "Z", "[", "]", "_", "a", "b", "c", "d",
       "e", "f", "g", "h", "i", "j", "k", "l", "m", "n", "o", "p", "q", "r", "s", "t",
       "u", "v", "w", "x", "y", "z", "|">>

IndexOf(seq, c) == CHOOSE i \in 1..Len(seq) : seq[i] = c

InSeq(seq, x) == \E i \in 1..Len(seq) : seq[i] = x

\* str.lower
lower_char(c) == IF InSeq(UpperCase, c) THEN LowerCase[IndexOf(UpperCase, c)] ELSE c

lower(s) == [i \in 1..Len(s) |-> lower_char(s[i])]

RECURSIVE split_from(_, _, _)
split_from(s, cur, acc) ==
    IF s = <<>>
    THEN IF cur = <<>> THEN acc ELSE Append(acc, cur)
    ELSE IF Head(s) = Space
    THEN split_from(Tail(s), <<>>, IF cur = <<>> THEN acc ELSE Append(acc, cur))
    ELSE split_from(Tail(s), Append(cur, Head(s)), acc)

\* str.split(): the maximal runs of non-whitespace characters.
split(s) == split_from(s, <<>>, <<>>)

RECURSIVE join(_, _)
\* sep.join(strs)
join(sep, strs) ==
    IF strs = <<>> THEN <<>>
    ELSE IF Len(strs) = 1 THEN strs[1]
    ELSE strs[1] \o sep \o join(sep, Tail(strs))

\* str.isdigit
isdigit(s) == s # <<>> /\ \A i \in 1..Len(s) : InSeq(Digits, s[i])

RECURSIVE int(_)
\* int(s) for a string of digits
int(s) == IF s = <<>> THEN 0 ELSE 10 * int(SubSeq(s, 1, Len(s) - 1)) + (IndexOf(Digits, s[Len(s)]) - 1)

RECURSIVE str_int(_)
\* str(n) for n >= 0
str_int(n) == IF n < 10 THEN <<Digits[n + 1]>> ELSE str_int(n \div 10) \o <<Digits[(n % 10) + 1]>>

RECURSIVE StrLess(_, _)
\* s < t in Python's string order
StrLess(s, t) ==
    IF t = <<>> THEN FALSE
    ELSE IF s = <<>> THEN TRUE
    ELSE IF Head(s) = Head(t) THEN StrLess(Tail(s), Tail(t))
    ELSE IndexOf(AsciiOrder, Head(s)) < IndexOf(AsciiOrder, Head(t))

RECURSIVE sorted(_)
\* sorted(strs) for distinct strings
sorted(strs) ==
    IF strs = <<>> THEN <<>>
    ELSE LET least == CHOOSE i \in 1..Len(strs) : \A j \in 1..Len(strs) : j # i => StrLess(strs[i], strs[j])
         IN <<strs[least]>> \o sorted([k \in 1..(Len(strs) - 1) |-> IF k < least THEN strs[k] ELSE strs[k + 1]])

(***************************************************************************)
(* Command: what a call returns or raises, and which operations it invoked *)
(***************************************************************************)

Returns(text, calls) == [kind |-> "str", text |-> text, calls |-> calls]

\* Commander.Exit
ReturnsExit(calls) == [kind |-> "Exit", text |-> <<>>, calls |-> calls]

\* str() of a record the hub hands back.
HubRecord == <<"{", "n", "o", "d", "e", "}">>

\* A value of the hub's own: a record, which is true and has a text.
ReturnsObject(calls) == [kind |-> "object", text |-> HubRecord, calls |-> calls]

Raises(text, calls) == [kind |-> "raise", text |-> text, calls |-> calls]

NoResult == [kind |-> "none", text |-> <<>>, calls |-> <<>>]

\* args[i] on the argument tuple raises IndexError when i is out of range.
IndexError(calls) == Raises(<<"t", "u", "p", "l", "e", " ", "i", "n", "d", "e", "x", " ", "o", "u", "t", " ", "o", "f", " ", "r", "a", "n", "g", "e">>, calls)

\* Command.__init__: the default quit and help tokens.
quit_commands == << <<"q">>, <<"q", "u", "i", "t">>, <<"e", "x", "i", "t">> >>

help_commands == << <<"h", "e", "l", "p">>, <<"?">>, <<"h">> >>

\* The do_ methods of TestCmd, as dir() finds them.
Registered ==
    << <<"d", "i", "s", "c", "o", "v", "e", "r", "y">>,
       <<"b", "r", "o", "a", "d", "c", "a", "s", "t">>,
       <<"n", "o", "d", "e", "s">>,
       <<"h", "a", "l", "t">>,
       <<"e", "c", "h", "o">>,
       <<"r", "a", "i", "s", "e">> >>

do_discovery(args) == Returns(<<"D", "i", "s", "c", "o", "v", "e", "r", "y", " ", "S", "t", "a", "r", "t", "e", "d">>, <<"do_discovery", "hub.discovery">>)

do_broadcast(args) ==
    Returns(<<"b", "r", "o", "a", "d", "c", "a", "s", "t">>, <<"do_broadcast", "hub.get_action", "hub.send_message">>)

\* Lines 240-266: the node id is a number.
do_nodes_id(args) ==
    LET node_id == int(args[1])
    IN IF Len(args) < 2 THEN IndexError(<<"do_nodes">>)
       ELSE IF args[2] = <<"r", "e", "n", "a", "m", "e">>
       THEN LET name == join(<<Space>>, SubSeq(args, 3, Len(args)))
            IN IF name = <<>>
               THEN Raises(<<"N", "a", "m", "e", " ", "t", "o", "o", " ", "s", "h", "o", "r", "t", "!">>, <<"do_nodes">>)
               ELSE Returns(<<"N", "o", "d", "e", ":", " ">> \o str_int(node_id) \o <<" ", "R", "e", "n", "a", "m", "e", "d", ":", " ">> \o name,
                            <<"do_nodes", "hub.set_node_name">>)
       ELSE IF args[2] = <<"s", "t", "a", "t", "e">>
       THEN IF Len(args) < 3 THEN IndexError(<<"do_nodes">>)
            ELSE Returns(<<"N", "o", "d", "e", ":", " ">> \o str_int(node_id) \o <<" ", "S", "t", "a", "t", "e", " ", "C", "h", "a", "n", "g", "e", "d", ":", " ">> \o args[3],
                         <<"do_nodes", "hub.send_state_request">>)
       ELSE IF args[2] = <<"a", "t", "t", "r", "i", "b", "u", "t", "e", "s">>
       THEN IF Len(args) < 3 THEN IndexError(<<"do_nodes">>)
            ELSE ReturnsObject(<<"do_nodes", "hub.get_node_attribute_history">>)
       ELSE IF args[2] = <<"t", "y", "p", "e">>
       THEN Returns(<<"T", "y", "p", "e", " ", "R", "e", "q", "u", "e", "s", "t", " ", "S", "e", "n", "t">>, <<"do_nodes", "hub.send_type_request">>)
       ELSE IF args[2] = <<"d", "e", "t", "a", "i", "l">>
       THEN ReturnsObject(<<"do_nodes", "hub.get_node">>)
       ELSE Returns(<<"U", "n", "k", "n", "o", "w", "n", " ", "A", "r", "g", "u", "m", "e", "n", "t">>, <<"do_nodes">>)

\* Lines 229-268.  The hub of the model knows no nodes, so the listing is its
\* heading alone.
do_nodes(args) ==
    IF args = <<>> THEN IndexError(<<"do_nodes">>)
    ELSE IF args[1] = <<"l", "i", "s", "t">>
    THEN Returns(<<"L", "i", "s", "t", " ", "o", "f", " ", "N", "o", "d", "e", "s", ":", " ", "\n">>, <<"do_nodes", "hub.get_nodes">>)
    ELSE IF isdigit(args[1]) THEN do_nodes_id(args)
    ELSE Returns(<<"U", "n", "k", "n", "o", "w", "n", " ", "A", "r", "g", "u", "m", "e", "n", "t">>, <<"do_nodes">>)

do_halt(args) == ReturnsExit(<<"do_halt", "hub.halt", "serial.close">>)

do_echo(args) == Returns(join(<<Space>>, args), <<"do_echo">>)

do_raise(args) == Raises(<<"S", "o", "m", "e", " ", "E", "r", "r", "o", "r">>, <<"do_raise">>)

\* getattr(self, 'do_' + cmd)(*args)
do(cmd, args) ==
    IF cmd = <<"d", "i", "s", "c", "o", "v", "e", "r", "y">> THEN do_discovery(args)
    ELSE IF cmd = <<"b", "r", "o", "a", "d", "c", "a", "s", "t">> THEN do_broadcast(args)
    ELSE IF cmd = <<"n", "o", "d", "e", "s">> THEN do_nodes(args)
    ELSE IF cmd = <<"h", "a", "l", "t">> THEN do_halt(args)
    ELSE IF cmd = <<"e", "c", "h", "o">> THEN do_echo(args)
    ELSE do_raise(args)

std_help ==
    LET qc == join(<<"|">>, quit_commands)
        hc == join(<<"|">>, help_commands)
        cl == Registered
    IN <<"T", "y", "p", "e", " ", "[">> \o hc \o <<"]", " ", "c", "o", "m", "m", "a", "n", "d", "_", "n", "a", "m", "e", " ", "t", "o", " ", "g", "e", "t", " ", "m", "o", "r", "e", " ", "h", "e", "l", "p", " ", "a", "b", "o", "u", "t", " ", "p", "a", "r", "t", "i", "c", "u", "l", "a", "r", " ", "c", "o", "m", "m", "a", "n", "d", "\n">>
       \o <<"T", "y", "p", "e", " ", "[">> \o qc \o <<"]", " ", "t", "o", " ", "q", "u", "i", "t", " ", "p", "r", "o", "g", "r", "a", "m", "\n">>
       \o <<"A", "v", "a", "i", "l", "a", "b", "l", "e", " ", "c", "o", "m", "m", "a", "n", "d", "s", ":", " ">> \o join(<<Space>>, sorted(cl))

\* Command.help.  `topic` is <<>> for None; no do_ method of TestCmd has a
\* docstring.
help(topic) ==
    IF topic = <<>> THEN Returns(std_help, <<"help">>)
    ELSE IF InSeq(Registered, topic)
    THEN Returns(<<"N", "o", " ", "d", "o", "c", "u", "m", "e", "n", "t", "a", "t", "i", "o", "n", " ", "a", "v", "a", "i", "l", "a", "b", "l", "e", " ", "f", "o", "r", " ">> \o topic, <<"help">>)
    ELSE Returns(std_help, <<"help">>)

\* Command.__call__ with the command token not lower-cased.
Command_call_CaseSensitive(line) ==
    LET tokens == split(line)
        cmd == tokens[1]
        args == Tail(tokens)
    IN IF tokens = <<>> THEN Raises(<<"l", "i", "s", "t", " ", "i", "n", "d", "e", "x", " ", "o", "u", "t", " ", "o", "f", " ", "r", "a", "n", "g", "e">>, <<>>)
       ELSE IF InSeq(quit_commands, cmd) THEN ReturnsExit(<<>>)
       ELSE IF InSeq(help_commands, cmd) THEN help(IF args # <<>> THEN args[1] ELSE <<>>)
       ELSE IF InSeq(Registered, cmd) THEN do(cmd, args)
       ELSE Raises(<<"U", "n", "k", "n", "o", "w", "n", " ", "c", "o", "m", "m", "a", "n", "d", ":", " ">> \o cmd, <<>>)

\* Command.__call__ where UnknownCommand carries the token as it was typed.
Command_call_RawToken(line) ==
    LET tokens == split(line)
        cmd == lower(tokens[1])
        args == Tail(tokens)
    IN IF tokens = <<>> THEN Raises(<<"l", "i", "s", "t", " ", "i", "n", "d", "e", "x", " ", "o", "u", "t", " ", "o", "f", " ", "r", "a", "n", "g", "e">>, <<>>)
       ELSE IF InSeq(quit_commands, cmd) THEN ReturnsExit(<<>>)
       ELSE IF InSeq(help_commands, cmd) THEN help(IF args # <<>> THEN args[1] ELSE <<>>)
       ELSE IF InSeq(Registered, cmd) THEN do(cmd, args)
       ELSE Raises(<<"U", "n", "k", "n", "o", "w", "n", " ", "c", "o", "m", "m", "a", "n", "d", ":", " ">> \o tokens[1], <<>>)

\* Command.__call__
Command_call(line) ==
    LET tokens == split(line)
        cmd == lower(tokens[1])
        args == Tail(tokens)
    IN IF tokens = <<>> THEN Raises(<<"l", "i", "s", "t", " ", "i", "n", "d", "e", "x", " ", "o", "u", "t", " ", "o", "f", " ", "r", "a", "n", "g", "e">>, <<>>)
       ELSE IF InSeq(quit_commands, cmd) THEN ReturnsExit(<<>>)
       ELSE IF InSeq(help_commands, cmd) THEN help(IF args # <<>> THEN args[1] ELSE <<>>)
       ELSE IF InSeq(Registered, cmd) THEN do(cmd, args)
       ELSE Raises(<<"U", "n", "k", "n", "o", "w", "n", " ", "c", "o", "m", "m", "a", "n", "d", ":", " ">> \o cmd, <<>>)

(***************************************************************************)
(* ListView: the output region                                             *)
(***************************************************************************)

\* An output line: urwid.Text(line) where line is a text or (style, text).
Plain(text) == [style |-> "none", text |-> text]

Styled(style, text) == [style |-> style, text |-> text]

\* get_focus()[1]: the focus position, None while the list is empty.
FocusPosition(lv) == IF lv.body = <<>> THEN -2 ELSE lv.focus

\* del self.body[0]: the list walker keeps its focus position inside the list.
DeleteFirst(lv) ==
    LET rest == Tail(lv.body)
    IN [lv EXCEPT !.body = rest,
                  !.focus = IF lv.focus >= Len(rest)
                            THEN IF Len(rest) = 0 THEN 0 ELSE Len(rest) - 1
                            ELSE lv.focus]

\* ListView.add, the whole body of `with self._lock`.  The field appended is
\* the record of every line the list was handed.
add(lv, line) ==
    LET was_on_end == FocusPosition(lv) = Len(lv.body) - 1
        kept == IF lv.max_size # 0 /\ Len(lv.body) > lv.max_size
                THEN DeleteFirst(lv)
                ELSE lv
        grown == [kept EXCEPT !.body = Append(kept.body, line),
                              !.appended = Append(kept.appended, line)]
        last == Len(grown.body) - 1
    IN IF was_on_end THEN [grown EXCEPT !.focus = last] ELSE grown

(***************************************************************************)
(* Commander                                                               *)
(***************************************************************************)

\* Commander.PALLETE: the style names of self._output_styles.
output_styles == {"reversed", "normal", "error", "green", "blue", "magenta"}

\* Lines 191-192: the line Commander.output hands on; style "none" is None.
styled_line(text, style) ==
    IF style # "none" /\ style \in output_styles
    THEN Styled(style, text)
    ELSE Plain(text)

\* Commander.output(line, style)
output(lv, text, style) == add(lv, styled_line(text, style))

\* What on_line_entered leaves: the output region, whether the run loop goes on
\* (urwid.ExitMainLoop stops it) and what the command callback returned or raised.
Handled(lv, goes_on, res) == [lv |-> lv, running |-> goes_on, result |-> res]

\* A command callback is set and an error of the callback ends the run loop.
on_line_entered_cmd_ErrorStops(lv, text) ==
    LET res == Command_call(text)
    IN IF res.kind = "raise"
       THEN Handled(output(lv, <<"E", "r", "r", "o", "r", ":", " ">> \o res.text, "error"), FALSE, res)
       ELSE IF res.kind = "Exit"
       THEN Handled(lv, FALSE, res)
       ELSE IF res.kind = "object" \/ res.text # <<>>
       THEN Handled(output(lv, res.text, "none"), TRUE, res)
       ELSE Handled(lv, TRUE, res)

\* Lines 174-183: a command callback is set.
on_line_entered_cmd(lv, text) ==
    LET res == Command_call(text)
    IN IF res.kind = "raise"
       THEN Handled(output(lv, <<"E", "r", "r", "o", "r", ":", " ">> \o res.text, "error"), TRUE, res)
       ELSE IF res.kind = "Exit"
       THEN Handled(lv, FALSE, res)
       ELSE IF res.kind = "object" \/ res.text # <<>>
       THEN Handled(output(lv, res.text, "none"), TRUE, res)
       ELSE Handled(lv, TRUE, res)

\* Lines 184-188: no command callback.
on_line_entered_plain(lv, text) ==
    IF text \in { <<"q">>, <<"q", "u", "i", "t">>, <<"e", "x", "i", "t">> }
    THEN Handled(lv, FALSE, NoResult)
    ELSE Handled(output(lv, text, "none"), TRUE, NoResult)

\* Commander.on_line_entered
on_line_entered(lv, cb, text) ==
    IF cb = "TestCmd" THEN on_line_entered_cmd(lv, text)
    ELSE on_line_entered_plain(lv, text)

(***************************************************************************)
(* Input: the input region.  An input region is the record of its fields   *)
(* history, history_index (self._history_index), edit_text and edit_pos.   *)
(***************************************************************************)

\* The capacity of the history, deque(maxlen=1000).
HistoryMax == 3

\* str.strip(): the text without the spaces at its ends.
RECURSIVE lstrip(_)
lstrip(text) ==
    IF text # <<>> /\ Head(text) = Space THEN lstrip(Tail(text)) ELSE text

RECURSIVE rstrip(_)
rstrip(text) ==
    IF text # <<>> /\ text[Len(text)] = Space
    THEN rstrip(SubSeq(text, 1, Len(text) - 1))
    ELSE text

strip(text) == rstrip(lstrip(text))

\* deque.append on a deque with maxlen: a full deque drops its oldest entry.
deque_append(entries, entry) ==
    IF Len(entries) >= HistoryMax
    THEN Append(Tail(entries), entry)
    ELSE Append(entries, entry)

\* self.edit_text = text: the cursor stays where it is unless the text got
\* shorter than that.
set_edit_text(inp, text) ==
    [inp EXCEPT !.edit_text = text,
                !.edit_pos = IF inp.edit_pos > Len(text) THEN Len(text) ELSE inp.edit_pos]

\* urwid.Edit.keypress with a printable character: inserted at the cursor.
insert_char(inp, ch) ==
    [inp EXCEPT !.edit_text = SubSeq(inp.edit_text, 1, inp.edit_pos) \o <<ch>>
                              \o SubSeq(inp.edit_text, inp.edit_pos + 1, Len(inp.edit_text)),
                !.edit_pos = inp.edit_pos + 1]

\* Lines 105-111, key 'enter'; stopped says that the handler of line_entered
\* raised urwid.ExitMainLoop, which leaves keypress at line 108.
keypress_enter(inp, stopped) ==
    LET line == strip(inp.edit_text)
        kept == IF line # <<>> THEN deque_append(inp.history, line) ELSE inp.history
    IN IF line # <<>> /\ stopped
       THEN inp
       ELSE set_edit_text([inp EXCEPT !.history = kept, !.history_index = Len(kept)], <<>>)

\* Key 'up' that steps below the oldest entry.
keypress_up_Unclamped(inp) ==
    IF inp.history_index - 1 < 0
    THEN [inp EXCEPT !.history_index = inp.history_index - 1]
    ELSE set_edit_text([inp EXCEPT !.history_index = inp.history_index - 1],
                       inp.history[inp.history_index])

\* Lines 112-118, key 'up'; history[i] of the source is history[i + 1] here.
keypress_up(inp) ==
    IF inp.history_index - 1 < 0
    THEN [inp EXCEPT !.history_index = 0]
    ELSE set_edit_text([inp EXCEPT !.history_index = inp.history_index - 1],
                       inp.history[inp.history_index])

\* Lines 119-125, key 'down'.
keypress_down(inp) ==
    IF inp.history_index + 1 >= Len(inp.history)
    THEN set_edit_text([inp EXCEPT !.history_index = Len(inp.history)], <<>>)
    ELSE set_edit_text([inp EXCEPT !.history_index = inp.history_index + 1],
                       inp.history[inp.history_index + 2])

(***************************************************************************)
(* The console as a state machine                                          *)
(***************************************************************************)

\* Bounds of the model.
MaxCapacity == 3

MaxAdds == 5

MaxLines == 2

\* The capacity of the console's output region (1000 by default).
OutputCapacity == 2

\* The lines the input region hands over: stripped and not empty.
Lines ==
    { <<"q">>,
      <<"Q">>,
      <<"q", "u", "i", "t", " ", "n", "o", "w">>,
      <<"E", "X", "I", "T", " ", " ", "q">>,
      <<"e", "x", "i", "t", " ", "e", "c", "h", "o", " ", "a">>,
      <<"h", "e", "l", "p">>,
      <<"?">>,
      <<"h", " ", "e", "c", "h", "o">>,
      <<"h", "e", "l", "p", " ", "E", "c", "h", "o">>,
      <<"H", "E", "L", "P", " ", "f", "o", "o">>,
      <<"e", "c", "h", "o">>,
      <<"e", "c", "h", "o", " ", "a">>,
      <<"E", "c", "h", "o", " ", "a", " ", " ", "b">>,
      <<"e", "c", "h", "o", " ", "q">>,
      <<"r", "a", "i", "s", "e">>,
      <<"r", "a", "i", "s", "e", " ", "a">>,
      <<"h", "a", "l", "t">>,
      <<"d", "i", "s", "c", "o", "v", "e", "r", "y">>,
      <<"b", "r", "o", "a", "d", "c", "a", "s", "t">>,
      <<"n", "o", "d", "e", "s">>,
      <<"n", "o", "d", "e", "s", " ", "l", "i", "s", "t">>,
      <<"n", "o", "d", "e", "s", " ", "0", "1">>,
      <<"n", "o", "d", "e", "s", " ", "0", "1", " ", "r", "e", "n", "a", "m", "e">>,
      <<"n", "o", "d", "e", "s", " ", "0", "1", " ", "r", "e", "n", "a", "m", "e", " ", "a", " ", "b">>,
      <<"n", "o", "d", "e", "s", " ", "1", "0", " ", "s", "t", "a", "t", "e">>,
      <<"n", "o", "d", "e", "s", " ", "1", " ", "s", "t", "a", "t", "e", " ", "a">>,
      <<"n", "o", "d", "e", "s", " ", "1", " ", "t", "y", "p", "e">>,
      <<"n", "o", "d", "e", "s", " ", "a">>,
      <<"f", "o", "o">>,
      <<"q", "u", "i", "t", "x">>,
      <<"F", "o", "o", " ", "q">>,
      <<"d", "o", "_", "e", "c", "h", "o">> }

\* The texts background threads put out.
AsyncTexts == { <<"r", "x">>, <<"q">> }

\* The lines the output region is handed on its own.
LogLines == { Plain(<<"A">>), Plain(<<"B">>), Plain(<<"C">>), Plain(<<"D">>) }

View == [body |-> body, focus |-> focus, max_size |-> max_size, appended |-> appended]

\* Commander.__init__ and the start of Commander.loop
ConsoleInit ==
    /\ body = <<>>
    /\ focus = 0
    /\ max_size = OutputCapacity
    /\ appended = <<>>
    /\ running = TRUE
    /\ cmd_cb \in {"TestCmd", "None"}
    /\ last_line = <<>>
    /\ result = NoResult
    /\ put = <<>>
    /\ steps = 0

\* ListView.__init__ with any capacity; 0 is max_size=None.
ListViewInit ==
    /\ body = <<>>
    /\ focus = 0
    /\ max_size \in 0..MaxCapacity
    /\ appended = <<>>
    /\ running = TRUE
    /\ cmd_cb = "None"
    /\ last_line = <<>>
    /\ result = NoResult
    /\ put = <<>>
    /\ steps = 0

\* The lines added to the output region by a step from lv to after.
Added(lv, after) ==
    SubSeq(after.appended, Len(lv.appended) + 1, Len(after.appended))

\* The input region emits line_entered and Commander.on_line_entered handles it.
LineEntered ==
    \E l \in Lines :
        LET h == on_line_entered(View, cmd_cb, l)
        IN /\ running
           /\ steps < MaxLines
           /\ last_line' = l
           /\ result' = h.result
           /\ running' = h.running
           /\ body' = h.lv.body
           /\ focus' = h.lv.focus
           /\ appended' = h.lv.appended
           /\ put' = Added(View, h.lv)
           /\ steps' = steps + 1
           /\ UNCHANGED <<max_size, cmd_cb>>

\* A background thread calls Commander.output.
AsyncOutput ==
    \E t \in AsyncTexts, style \in {"none", "green", "bold"} :
        LET lv == output(View, t, style)
        IN /\ running
           /\ steps < MaxLines
           /\ body' = lv.body
           /\ focus' = lv.focus
           /\ appended' = lv.appended
           /\ steps' = steps + 1
           /\ UNCHANGED <<max_size, cmd_cb, last_line, result, put, running>>

\* The operator scrolls the output region: the list box moves its focus.
Scroll ==
    \E i \in 0..(Len(body) - 1) :
        /\ running
        /\ i # focus
        /\ focus' = i
        /\ UNCHANGED <<body, max_size, appended, running, cmd_cb, last_line, result, put, steps>>

\* ListView.add called with a line.
Add ==
    \E l \in LogLines :
        LET lv == add(View, l)
        IN /\ steps < MaxAdds
           /\ body' = lv.body
           /\ focus' = lv.focus
           /\ appended' = lv.appended
           /\ steps' = steps + 1
           /\ UNCHANGED <<max_size, cmd_cb, last_line, result, put, running>>

\* The threads that put lines out: "U" is the thread of the run loop, "R" and
\* "T" are background threads.
Threads == {"U", "R", "T"}

\* The number of lines the threads put out between them.
MaxCalls == 5

\* The k-th text of thread t, and the style it asks for.
ThreadText(t, k) == <<t>> \o str_int(k)

ThreadStyle(t) == IF t = "R" THEN "green" ELSE "none"

\* No thread is inside Commander.output.
ThreadsInit ==
    /\ pc = [t \in Threads |-> "idle"]
    /\ lock = "none"
    /\ frame = [t \in Threads |-> [line |-> Plain(<<>>), was_on_end |-> FALSE]]
    /\ issued = [t \in Threads |-> 0]

\* Lock.acquire does not block: no thread holds the lock.
lock_free_Always(holder) == TRUE

\* `with self._lock`: Lock.acquire blocks while a thread holds the lock.
lock_free(holder) == holder = "none"

\* A thread calls Commander.output: lines 191-192, up to the call of add.
Output_call ==
    \E t \in Threads :
        /\ pc[t] = "idle"
        /\ issued["U"] + issued["R"] + issued["T"] < MaxCalls
        /\ issued' = [issued EXCEPT ![t] = issued[t] + 1]
        /\ frame' = [frame EXCEPT ![t].line =
                         styled_line(ThreadText(t, issued[t] + 1), ThreadStyle(t))]
        /\ pc' = [pc EXCEPT ![t] = "acquire"]
        /\ UNCHANGED <<lock, convars>>

\* Line 85: the thread enters `with self._lock`.
Lock_acquire ==
    \E t \in Threads :
        /\ pc[t] = "acquire"
        /\ lock_free(lock)
        /\ lock' = t
        /\ pc' = [pc EXCEPT ![t] = "was_on_end"]
        /\ UNCHANGED <<frame, issued, convars>>

\* Line 86: was_on_end = self.get_focus()[1] == len(self.body) - 1
Read_focus ==
    \E t \in Threads :
        /\ pc[t] = "was_on_end"
        /\ frame' = [frame EXCEPT ![t].was_on_end =
                         (FocusPosition(View) = Len(body) - 1)]
        /\ pc' = [pc EXCEPT ![t] = "test"]
        /\ UNCHANGED <<lock, issued, convars>>

\* Line 87: if self.max_size and len(self.body) > self.max_size
Test_size ==
    \E t \in Threads :
        /\ pc[t] = "test"
        /\ pc' = [pc EXCEPT ![t] = IF max_size # 0 /\ Len(body) > max_size
                                    THEN "del" ELSE "append"]
        /\ UNCHANGED <<lock, frame, issued, convars>>

\* Line 88: del self.body[0]
Delete_first ==
    \E t \in Threads :
        /\ pc[t] = "del"
        /\ body # <<>>
        /\ body' = DeleteFirst(View).body
        /\ focus' = DeleteFirst(View).focus
        /\ pc' = [pc EXCEPT ![t] = "append"]
        /\ UNCHANGED <<lock, frame, issued, max_size, appended, running, cmd_cb,
                       last_line, result, put, steps>>

\* Line 89: self.body.append(urwid.Text(line))
Append_line ==
    \E t \in Threads :
        /\ pc[t] = "append"
        /\ body' = Append(body, frame[t].line)
        /\ appended' = Append(appended, frame[t].line)
        /\ pc' = [pc EXCEPT ![t] = "set_focus"]
        /\ UNCHANGED <<lock, frame, issued, focus, max_size, running, cmd_cb,
                       last_line, result, put, steps>>

\* Lines 90-92: last = len(self.body) - 1 and set_focus(last) if was_on_end.
Set_focus ==
    \E t \in Threads :
        /\ pc[t] = "set_focus"
        /\ focus' = IF frame[t].was_on_end THEN Len(body) - 1 ELSE focus
        /\ pc' = [pc EXCEPT ![t] = "release"]
        /\ UNCHANGED <<lock, frame, issued, body, max_size, appended, running,
                       cmd_cb, last_line, result, put, steps>>

\* The thread leaves `with self._lock`; line 195 sends every thread but the one
\* of the run loop on to draw_screen.
Lock_release ==
    \E t \in Threads :
        /\ pc[t] = "release"
        /\ lock' = "none"
        /\ pc' = [pc EXCEPT ![t] = IF t = "U" THEN "idle" ELSE "draw"]
        /\ UNCHANGED <<frame, issued, convars>>

\* Line 196: self.eloop.draw_screen()
Draw_screen ==
    \E t \in Threads :
        /\ pc[t] = "draw"
        /\ pc' = [pc EXCEPT ![t] = "idle"]
        /\ UNCHANGED <<lock, frame, issued, convars>>

\* The operator scrolls while the thread of the run loop is not putting out.
Scroll_idle ==
    /\ pc["U"] = "idle"
    /\ Scroll
    /\ UNCHANGED thrvars

\* The input region as a record, and the variables as that record.
InputView ==
    [history |-> history, history_index |-> history_index,
     edit_text |-> edit_text, edit_pos |-> edit_pos]

InputBecomes(inp) ==
    /\ history' = inp.history
    /\ history_index' = inp.history_index
    /\ edit_text' = inp.edit_text
    /\ edit_pos' = inp.edit_pos
    /\ before' = [index |-> history_index, text |-> edit_text]

\* Input.__init__
InputInit ==
    /\ history = <<>>
    /\ history_index = -1
    /\ edit_text = <<>>
    /\ edit_pos = 0
    /\ key = "none"
    /\ before = [index |-> -1, text |-> <<>>]

\* The number of lines the operator enters.
MaxEnters == 4

\* The texts the operator types, character by character.
TypedTexts ==
    { <<"A">>, <<"B">>, <<"C">>, <<" ", "A", " ">>, <<" ", " ">>, <<"q">> }

TypedPrefixes ==
    UNION { { SubSeq(t, 1, n) : n \in 0..Len(t) } : t \in TypedTexts }

\* Input.keypress(size, 'enter'): line_entered is connected to
\* Commander.on_line_entered.
KeyEnter ==
    LET line == strip(edit_text)
        h == IF line # <<>>
             THEN on_line_entered(View, cmd_cb, line)
             ELSE Handled(View, TRUE, result)
    IN /\ running
       /\ steps < MaxEnters
       /\ key' = "enter"
       /\ InputBecomes(keypress_enter(InputView, ~h.running))
       /\ last_line' = IF line # <<>> THEN line ELSE last_line
       /\ result' = h.result
       /\ put' = IF line # <<>> THEN Added(View, h.lv) ELSE put
       /\ running' = h.running
       /\ body' = h.lv.body
       /\ focus' = h.lv.focus
       /\ appended' = h.lv.appended
       /\ steps' = steps + 1
       /\ UNCHANGED <<max_size, cmd_cb>>

\* Input.keypress(size, 'up')
KeyUp ==
    /\ running
    /\ key' = "up"
    /\ InputBecomes(keypress_up(InputView))
    /\ UNCHANGED convars

\* Input.keypress(size, 'down')
KeyDown ==
    /\ running
    /\ key' = "down"
    /\ InputBecomes(keypress_down(InputView))
    /\ UNCHANGED convars

\* Input.keypress(size, ch) with a printable character.
KeyChar ==
    \E ch \in {"A", "B", "C", "q", Space} :
        LET inp == insert_char(InputView, ch)
        IN /\ running
           /\ inp.edit_text \in TypedPrefixes
           /\ key' = ch
           /\ InputBecomes(inp)
           /\ UNCHANGED convars

\* The device while the console runs, and the console while the device runs.
DeviceIdle ==
    /\ associated = FALSE
    /\ hub_addr_long = None
    /\ hub_addr_short = None
    /\ mode = "NORMAL"
    /\ byteorder = "little"
    /\ message = NoMessage
    /\ pre = [associated |-> FALSE, hub_addr_long |-> None,
              hub_addr_short |-> None, mode |-> "NORMAL"]
    /\ sent = <<>>
    /\ logged = <<>>
    /\ raised = "none"

ConsoleIdle ==
    /\ body = <<>>
    /\ focus = 0
    /\ max_size = 0
    /\ appended = <<>>
    /\ running = FALSE
    /\ cmd_cb = "None"
    /\ last_line = <<>>
    /\ result = NoResult
    /\ put = <<>>
    /\ steps = 0

ConsoleNext ==
    \/ LineEntered /\ UNCHANGED <<devvars, inpvars, thrvars>>
    \/ AsyncOutput /\ UNCHANGED <<devvars, inpvars, thrvars>>
    \/ Scroll /\ UNCHANGED <<devvars, inpvars, thrvars>>

ListViewNext ==
    \/ Add /\ UNCHANGED <<devvars, inpvars, thrvars>>
    \/ Scroll /\ UNCHANGED <<devvars, inpvars, thrvars>>

InputNext ==
    \/ KeyEnter /\ UNCHANGED <<devvars, thrvars>>
    \/ KeyUp /\ UNCHANGED <<devvars, thrvars>>
    \/ KeyDown /\ UNCHANGED <<devvars, thrvars>>
    \/ KeyChar /\ UNCHANGED <<devvars, thrvars>>

ThreadNext ==
    \/ Output_call /\ UNCHANGED <<devvars, inpvars>>
    \/ Lock_acquire /\ UNCHANGED <<devvars, inpvars>>
    \/ Read_focus /\ UNCHANGED <<devvars, inpvars>>
    \/ Test_size /\ UNCHANGED <<devvars, inpvars>>
    \/ Delete_first /\ UNCHANGED <<devvars, inpvars>>
    \/ Append_line /\ UNCHANGED <<devvars, inpvars>>
    \/ Set_focus /\ UNCHANGED <<devvars, inpvars>>
    \/ Lock_release /\ UNCHANGED <<devvars, inpvars>>
    \/ Draw_screen /\ UNCHANGED <<devvars, inpvars>>
    \/ Scroll_idle /\ UNCHANGED <<devvars, inpvars>>

DeviceNext == ProcessMessage /\ UNCHANGED <<convars, inpvars, thrvars>>

DeviceStart == DeviceInit /\ ConsoleIdle /\ InputInit /\ ThreadsInit

ConsoleStart == ConsoleInit /\ DeviceIdle /\ InputInit /\ ThreadsInit

ListViewStart == ListViewInit /\ DeviceIdle /\ InputInit /\ ThreadsInit

InputStart == ConsoleInit /\ InputInit /\ DeviceIdle /\ ThreadsInit

ThreadStart == ConsoleInit /\ ThreadsInit /\ DeviceIdle /\ InputInit

DeviceSpec == DeviceStart /\ [][DeviceNext]_vars

ConsoleSpec == ConsoleStart /\ [][ConsoleNext]_vars

ListViewSpec == ListViewStart /\ [][ListViewNext]_vars

InputSpec == InputStart /\ [][InputNext]_vars

ThreadSpec == ThreadStart /\ [][ThreadNext]_vars

(***************************************************************************)
(* Properties of the device                                                *)
(***************************************************************************)

\* What the last call was handed.
Explicit == message.id = "rx_explicit"

\* An AlertMe frame on cluster 0x00F0 whose command byte is 0xFA.
ModeChangeRequest ==
    /\ Explicit
    /\ message.profile = ALERTME_PROFILE_ID
    /\ message.cluster = <<0, 240>>
    /\ Len(message.rf_data) >= 3
    /\ message.rf_data[3] = 250

\* ... that carries the two-byte sub-code sub.
ModeChangeTo(sub) ==
    /\ ModeChangeRequest
    /\ Len(message.rf_data) >= 5
    /\ <<message.rf_data[4], message.rf_data[5]>> = sub

RecognizedSubCodes == { <<0, 1>>, <<1, 1>>, <<2, 1>>, <<3, 1>> }

IsMatchDescriptorRequest(s) ==
    /\ s.message.profile = ZDP_PROFILE_ID
    /\ s.message.cluster = <<0, 6>>
    /\ s.message.src_endpoint = <<0>>
    /\ s.message.dest_endpoint = <<0>>
    /\ s.message.data = <<3, 253, 255, 22, 194, 0, 1, 240, 0>>

\* Cluster 0x00F6, payload 09 2B FD and the signal strength as 16 bits.
IsRangeUpdate(s) ==
    /\ s.message.cluster = <<0, 246>>
    /\ Len(s.message.data) = 5
    /\ SubSeq(s.message.data, 1, 3) = <<9, 43, 253>>
    /\ \A i \in 4..5 : s.message.data[i] \in 0..255
    /\ rssi = IF byteorder = "little"
              THEN s.message.data[4] + 256 * s.message.data[5]
              ELSE 256 * s.message.data[4] + s.message.data[5]

ToSender(s) ==
    /\ s.dest_addr_long = message.source_addr_long
    /\ s.dest_addr_short = message.source_addr

MatchDescriptorRequests == { i \in DOMAIN sent : IsMatchDescriptorRequest(sent[i]) }

RangeUpdates == { i \in DOMAIN sent : IsRangeUpdate(sent[i]) }

FieldsUnchanged == Fields = pre

\* C2: a device that is not associated answers every explicit frame, whatever
\* its profile and cluster, with exactly one Match Descriptor Request, sent to
\* the long and short address of the frame's sender.
C2_MatchDescriptorRequestToSender ==
    (Explicit /\ pre.associated = FALSE) =>
        /\ Cardinality(MatchDescriptorRequests) = 1
        /\ \A i \in MatchDescriptorRequests : ToSender(sent[i])

C2_Witness ==
    /\ Explicit /\ pre.associated = FALSE
    /\ message.profile = <<1, 4>>
    /\ message.source_addr = <<86, 120>>
    /\ Cardinality(MatchDescriptorRequests) = 1

\* C3 as stated: in every device state a frame of an unknown profile sends
\* nothing, changes nothing and logs an error.
C3_UnknownProfileSendsNothing ==
    (Explicit /\ message.profile \notin {ZDP_PROFILE_ID, ALERTME_PROFILE_ID}) =>
        /\ sent = <<>>
        /\ FieldsUnchanged
        /\ \E i \in DOMAIN logged : logged[i].level = "error"

\* C3 amended: a frame of an unknown profile leaves the association flag, the
\* hub addresses and the mode unchanged and logs one error; an associated device
\* sends nothing, a device that is not associated sends only its one Match
\* Descriptor Request to the sender.
C3_UnknownProfileOnlyDiscovers ==
    (Explicit /\ message.profile \notin {ZDP_PROFILE_ID, ALERTME_PROFILE_ID}) =>
        /\ FieldsUnchanged
        /\ raised = "none"
        /\ Len(logged) = 1 /\ logged[1].level = "error"
        /\ pre.associated => sent = <<>>
        /\ ~pre.associated =>
              Len(sent) = 1 /\ IsMatchDescriptorRequest(sent[1]) /\ ToSender(sent[1])

C3_Witness ==
    /\ Explicit /\ message.profile = <<1, 4>>
    /\ message.cluster = <<0, 240>> /\ message.rf_data = RangePayload
    /\ pre.associated /\ pre.mode = "LOCKED"
    /\ sent = <<>> /\ Len(logged) = 1

\* C4: from any state a Mode Change Request with sub-code 0x0101 leaves the
\* device in mode RANGE, associated with the sender as hub, and sends exactly
\* one Range Update, addressed to that sender.
C4_RangeTest ==
    ModeChangeTo(<<1, 1>>) =>
        /\ mode = "RANGE"
        /\ associated = TRUE
        /\ hub_addr_long = message.source_addr_long
        /\ hub_addr_short = message.source_addr
        /\ Cardinality(RangeUpdates) = 1
        /\ \A i \in RangeUpdates : ToSender(sent[i])

C4_Witness ==
    /\ ModeChangeTo(<<1, 1>>)
    /\ pre.associated /\ pre.hub_addr_long # message.source_addr_long
    /\ pre.mode = "SILENT" /\ mode = "RANGE"
    /\ Cardinality(RangeUpdates) = 1

\* C5 as stated: sub-codes 0x0001, 0x0201 and 0x0301 set NORMAL, LOCKED and
\* SILENT and send no message at all, from any state.
C5_ModeChangeSendsNothing ==
    /\ ModeChangeTo(<<0, 1>>) => mode = "NORMAL" /\ sent = <<>>
    /\ ModeChangeTo(<<2, 1>>) => mode = "LOCKED" /\ sent = <<>>
    /\ ModeChangeTo(<<3, 1>>) => mode = "SILENT" /\ sent = <<>>

ModeOf(sub) ==
    IF sub = <<0, 1>> THEN "NORMAL" ELSE IF sub = <<2, 1>> THEN "LOCKED" ELSE "SILENT"

\* C5 amended: sub-codes 0x0001, 0x0201 and 0x0301 set NORMAL, LOCKED and
\* SILENT; an associated device sends nothing, and a device that was not
\* associated sends only the one Match Descriptor Request to the sender.
C5_ModeChangeOnlyDiscovers ==
    \A sub \in { <<0, 1>>, <<2, 1>>, <<3, 1>> } :
        ModeChangeTo(sub) =>
            /\ mode = ModeOf(sub)
            /\ pre.associated => sent = <<>>
            /\ ~pre.associated =>
                  Len(sent) = 1 /\ IsMatchDescriptorRequest(sent[1]) /\ ToSender(sent[1])

C5_Witness ==
    /\ ModeChangeTo(<<2, 1>>)
    /\ pre.associated /\ pre.mode = "RANGE"
    /\ mode = "LOCKED" /\ sent = <<>>

\* C6: for an associated device a Mode Change Request whose sub-code is not
\* one of the four recognized ones leaves mode and association unchanged and
\* sends nothing.
C6_UnrecognizedSubCode ==
    (/\ pre.associated
     /\ ModeChangeRequest
     /\ Len(message.rf_data) >= 5
     /\ <<message.rf_data[4], message.rf_data[5]>> \notin RecognizedSubCodes) =>
        /\ mode = pre.mode
        /\ associated = pre.associated
        /\ sent = <<>>

C6_Witness ==
    /\ pre.associated /\ pre.mode = "RANGE"
    /\ ModeChangeTo(<<4, 1>>)
    /\ mode = "RANGE" /\ sent = <<>>

\* C7: the mode is always one of NORMAL, RANGE, LOCKED, SILENT, it is NORMAL
\* before any message, and a call changes it only when the message is a Mode
\* Change Request with one of the four recognized sub-codes.
C7_ModeChangesOnlyOnModeChange ==
    /\ mode \in {"NORMAL", "RANGE", "LOCKED", "SILENT"}
    /\ message = NoMessage => mode = "NORMAL"
    /\ mode # pre.mode => \E sub \in RecognizedSubCodes : ModeChangeTo(sub)

C7_Witness ==
    /\ Explicit /\ message.profile = ALERTME_PROFILE_ID
    /\ message.cluster = <<0, 240>> /\ message.rf_data = <<17, 0, 251, 1, 1>>
    /\ pre.mode = "LOCKED" /\ mode = "LOCKED"

\* C8: once the association flag is set no call clears it, whether the call
\* returns or raises, and once the hub addresses are set none is unset again.
C8_AssociationIrreversible ==
    [][/\ associated => associated'
       /\ hub_addr_long # None => hub_addr_long' # None
       /\ hub_addr_short # None => hub_addr_short' # None]_vars

C8_Witness ==
    /\ pre.associated /\ associated
    /\ raised = "IndexError"
    /\ hub_addr_long # None /\ hub_addr_short # None

\* C9 as stated: a device becomes associated only on a Mode Change Request
\* carrying one of the four recognized sub-codes.
C9_AssociatesOnlyOnRecognizedSubCode ==
    (~pre.associated /\ associated) =>
        \E sub \in RecognizedSubCodes : ModeChangeTo(sub)

\* C9 amended: a device becomes associated only on an AlertMe frame with
\* cluster 0x00F0 and command 0xFA, whatever its sub-code, recognized,
\* unrecognized or missing.
C9_AssociatesOnlyOnModeChangeRequest ==
    (~pre.associated /\ associated) => ModeChangeRequest

C9_Witness ==
    /\ ~pre.associated /\ associated
    /\ ModeChangeTo(<<4, 1>>)

\* C17: a Match Descriptor Request is sent while an explicit frame is processed
\* if and only if the device was not associated when the call began; no message
\* of another kind causes one, so an associated device never sends one again.
C17_DiscoversOnlyWhileNotAssociated ==
    /\ Explicit => (MatchDescriptorRequests # {} <=> ~pre.associated)
    /\ ~Explicit => MatchDescriptorRequests = {}

C17_Witness ==
    /\ Explicit /\ pre.associated
    /\ message.profile = ALERTME_PROFILE_ID /\ message.cluster = <<0, 240>>
    /\ message.source_addr_long # pre.hub_addr_long
    /\ sent = <<>>

\* An AlertMe frame on cluster 0x00F6.
VersionRequestFrame ==
    /\ Explicit
    /\ message.profile = ALERTME_PROFILE_ID
    /\ message.cluster = <<0, 246>>

\* Cluster 0x00F6, AlertMe profile, payload 09 71 FE and what follows.
IsTypeUpdate(s) ==
    /\ s.message.profile = ALERTME_PROFILE_ID
    /\ s.message.cluster = <<0, 246>>
    /\ Len(s.message.data) >= 3
    /\ SubSeq(s.message.data, 1, 3) = <<9, 113, 254>>

TypeUpdates == { i \in DOMAIN sent : IsTypeUpdate(sent[i]) }

ToRememberedHub(s) ==
    /\ s.dest_addr_long = pre.hub_addr_long
    /\ s.dest_addr_short = pre.hub_addr_short

\* C18 as stated: every AlertMe frame on cluster 0x00F6 sends exactly one Type
\* Update, addressed to the remembered hub (the unset values before any
\* association), and leaves association, hub addresses and mode unchanged.
C18_VersionRequestAlwaysAnswered ==
    VersionRequestFrame =>
        /\ Cardinality(TypeUpdates) = 1
        /\ \A i \in TypeUpdates : ToRememberedHub(sent[i])
        /\ FieldsUnchanged

\* C18 amended: an AlertMe frame on cluster 0x00F6 whose payload holds at least
\* three bytes sends exactly one Type Update, addressed to the remembered hub
\* and not to the sender (the unset values before any association); a shorter
\* payload raises IndexError and no Type Update is sent.  Either way
\* association, hub addresses and mode are unchanged.
C18_VersionRequestAnsweredToHub ==
    VersionRequestFrame =>
        /\ FieldsUnchanged
        /\ Len(message.rf_data) >= 3 =>
              /\ raised = "none"
              /\ Cardinality(TypeUpdates) = 1
              /\ \A i \in TypeUpdates : ToRememberedHub(sent[i])
              /\ ~pre.associated =>
                    \A i \in TypeUpdates : sent[i].dest_addr_long = None
                                           /\ sent[i].dest_addr_short = None
        /\ Len(message.rf_data) < 3 =>
              raised = "IndexError" /\ TypeUpdates = {}

C18_Witness ==
    /\ VersionRequestFrame /\ Len(message.rf_data) >= 3
    /\ pre.associated /\ pre.hub_addr_long # message.source_addr_long
    /\ Cardinality(TypeUpdates) = 1
    /\ \A i \in TypeUpdates : sent[i].dest_addr_long = hub_addr_long

\* C19: the device is associated exactly when its hub addresses are set, and a
\* call leaves them equal to the sender of the Mode Change Request it processed,
\* whatever the sub-code, or as they were when it processed none: they are
\* those of the most recent Mode Change Request.
C19_HubIsLastModeChangeSender ==
    /\ associated <=> hub_addr_long # None
    /\ associated <=> hub_addr_short # None
    /\ ModeChangeRequest =>
          /\ associated
          /\ hub_addr_long = message.source_addr_long
          /\ hub_addr_short = message.source_addr
    /\ ~ModeChangeRequest =>
          /\ associated = pre.associated
          /\ hub_addr_long = pre.hub_addr_long
          /\ hub_addr_short = pre.hub_addr_short

C19_Witness ==
    /\ pre.associated /\ ModeChangeTo(<<4, 1>>)
    /\ pre.hub_addr_long # message.source_addr_long
    /\ hub_addr_long = message.source_addr_long
    /\ hub_addr_short = message.source_addr

\* C20: a Mode Change Request whose payload has 3 or 4 bytes raises an error and
\* leaves the mode unchanged, but the sender is already the hub and the device
\* is associated; a device that was not associated has sent one Match Descriptor
\* Request by then, and nothing else is sent.
C20_TruncatedModeChange ==
    (ModeChangeRequest /\ Len(message.rf_data) \in {3, 4}) =>
        /\ raised = "IndexError"
        /\ mode = pre.mode
        /\ associated
        /\ hub_addr_long = message.source_addr_long
        /\ hub_addr_short = message.source_addr
        /\ pre.associated => sent = <<>>
        /\ ~pre.associated =>
              Len(sent) = 1 /\ IsMatchDescriptorRequest(sent[1]) /\ ToSender(sent[1])

C20_Witness ==
    /\ ModeChangeRequest /\ Len(message.rf_data) = 4
    /\ ~pre.associated /\ associated
    /\ raised = "IndexError"
    /\ Len(sent) = 1


(***************************************************************************)
(* Properties of the console                                               *)
(***************************************************************************)

Min(a, b) == IF a < b THEN a ELSE b

\* The last n elements of a sequence.
LastN(seq, n) == SubSeq(seq, Len(seq) - n + 1, Len(seq))

\* C1: an output region of capacity N >= 1 never holds more than N lines: it
\* holds the last N lines handed to it (all of them while there are fewer), in
\* the order they were handed over.
C1_LogWithinCapacity ==
    max_size >= 1 =>
        /\ Len(body) <= max_size
        /\ body = LastN(appended, Min(max_size, Len(appended)))

\* The text s starts, after leading spaces, with a token that lower-cased is t
\* and that ends the text or is followed by a space.
FirstTokenIs(s, t) ==
    \E i \in 1..Len(s) :
        /\ \A k \in 1..(i - 1) : s[k] = Space
        /\ i + Len(t) - 1 <= Len(s)
        /\ \A k \in 1..Len(t) : s[i + k - 1] # Space
        /\ lower(SubSeq(s, i, i + Len(t) - 1)) = t
        /\ (i + Len(t) - 1 = Len(s) \/ s[i + Len(t)] = Space)

IsQuitLine(s) ==
    \/ FirstTokenIs(s, <<"q">>)
    \/ FirstTokenIs(s, <<"q", "u", "i", "t">>)
    \/ FirstTokenIs(s, <<"e", "x", "i", "t">>)

\* C10: a line whose first token, lower-cased, is a quit token makes the
\* dispatcher return the exit sentinel, whatever follows the token and without
\* help or a registered operation being invoked, and on_line_entered then stops
\* the run loop.
C10_QuitStopsTheLoop ==
    (cmd_cb = "TestCmd" /\ IsQuitLine(last_line)) =>
        /\ result.kind = "Exit"
        /\ result.calls = <<>>
        /\ running = FALSE

C10_Witness ==
    /\ cmd_cb = "TestCmd"
    /\ last_line = <<"E", "X", "I", "T", " ", " ", "q">>
    /\ result.kind = "Exit"
    /\ running = FALSE

\* The tokens the dispatcher of TestCmd knows: quit, help and the operations.
KnownTokens ==
    { <<"q">>, <<"q", "u", "i", "t">>, <<"e", "x", "i", "t">>,
      <<"h", "e", "l", "p">>, <<"?">>, <<"h">>,
      <<"d", "i", "s", "c", "o", "v", "e", "r", "y">>,
      <<"b", "r", "o", "a", "d", "c", "a", "s", "t">>,
      <<"n", "o", "d", "e", "s">>,
      <<"h", "a", "l", "t">>,
      <<"e", "c", "h", "o">>,
      <<"r", "a", "i", "s", "e">> }

UnknownCommandText(t) ==
    <<"U", "n", "k", "n", "o", "w", "n", " ", "c", "o", "m", "m", "a", "n", "d", ":", " ">> \o t

\* C11: a line whose first token, lower-cased, is neither a quit token, a help
\* token nor the name of a registered operation makes the dispatcher raise
\* UnknownCommand carrying that lower-cased token, and no registered operation
\* is invoked.
C11_UnknownCommand ==
    cmd_cb = "TestCmd" =>
        \A i, j \in 1..Len(last_line) :
            LET t == lower(SubSeq(last_line, i, j))
            IN (i <= j /\ FirstTokenIs(last_line, t) /\ t \notin KnownTokens) =>
                   /\ result.kind = "raise"
                   /\ result.text = UnknownCommandText(t)
                   /\ result.calls = <<>>

C11_Witness ==
    /\ cmd_cb = "TestCmd"
    /\ last_line = <<"F", "o", "o", " ", "q">>
    /\ result.kind = "raise"
    /\ result.text = UnknownCommandText(<<"f", "o", "o">>)
    /\ result.calls = <<>>

ErrorLine(text) == Styled("error", <<"E", "r", "r", "o", "r", ":", " ">> \o text)

\* C12: a line whose command callback raises adds exactly one line to the
\* output region, styled as an error and reading 'Error: ' and the message, and
\* the run loop goes on; the run loop is stopped only by a line for which the
\* callback returned the exit sentinel.
C12_ErrorsAreContained ==
    cmd_cb = "TestCmd" =>
        /\ result.kind = "raise" => (put = <<ErrorLine(result.text)>> /\ running)
        /\ ~running => result.kind = "Exit"

C12_Witness ==
    /\ cmd_cb = "TestCmd"
    /\ last_line = <<"r", "a", "i", "s", "e">>
    /\ result.kind = "raise"
    /\ put = <<ErrorLine(<<"S", "o", "m", "e", " ", "E", "r", "r", "o", "r">>)>>
    /\ Len(appended) = 2
    /\ running

\* C16: every value the callback returns that is neither None nor the exit
\* sentinel, the empty string included, adds exactly one plain line with its
\* text to the output region; only a call that returned None adds nothing.
C16_EveryResultIsPutOut ==
    cmd_cb = "TestCmd" =>
        /\ result.kind \in {"str", "object"} => put = <<Plain(result.text)>>
        /\ result.kind = "none" => put = <<>>

(***************************************************************************)
(* Properties of the input region                                          *)
(***************************************************************************)

Max(a, b) == IF a > b THEN a ELSE b

\* What the field shows with the recall cursor at i: entry i of the history
\* (counted from 0, oldest first), or nothing when i is the length of the
\* history, "not recalling".
Recalled(i) == IF i < Len(history) THEN history[i + 1] ELSE <<>>

\* C13: history recall.  Up moves the cursor one entry towards the oldest and
\* loads that entry, and at the oldest entry it stays there and keeps the
\* field; Down moves the cursor one entry towards the newest and loads that
\* entry, and past the newest it clears the field and stays "not recalling";
\* Enter leaves the cursor "not recalling".  With the entries A, B, C: Up gives
\* C, B, A, A and Down from A gives B, C, empty, empty.
C13_HistoryRecall ==
    /\ key = "up" =>
          /\ history_index = Max(before.index - 1, 0)
          /\ edit_text = IF before.index >= 1 THEN Recalled(history_index)
                         ELSE before.text
    /\ key = "down" =>
          /\ history_index = Min(before.index + 1, Len(history))
          /\ edit_text = Recalled(history_index)
    /\ (key = "enter" /\ running) =>
          /\ history_index = Len(history)
          /\ edit_text = <<>>

\* The fourth Up after A, B, C: the cursor was on A and stays on A.
C13_Witness ==
    /\ history = << <<"A">>, <<"B">>, <<"C">> >>
    /\ key = "up"
    /\ before = [index |-> 0, text |-> <<"A">>]
    /\ history_index = 0
    /\ edit_text = <<"A">>

\* C14: in every state of the input region, from its construction on, the
\* recall cursor is within 0 .. the length of the history.
C14_CursorWithinHistory ==
    0 <= history_index /\ history_index <= Len(history)

(***************************************************************************)
(* Properties of concurrent output                                         *)
(***************************************************************************)

\* The output region after ListView.add was called with the lines of seq, one
\* call after the other.
RECURSIVE OneByOne(_)
OneByOne(seq) ==
    IF seq = <<>>
    THEN [body |-> <<>>, focus |-> 0, max_size |-> max_size, appended |-> <<>>]
    ELSE add(OneByOne(SubSeq(seq, 1, Len(seq) - 1)), seq[Len(seq)])

\* The lines of thread t among the lines appended so far, in that order.
LinesOf(t) == SelectSeq(appended, LAMBDA l : l.text[1] = t)

\* The calls of thread t that are past their append.
Contributed(t) ==
    IF pc[t] \in {"acquire", "was_on_end", "test", "del", "append"}
    THEN issued[t] - 1
    ELSE issued[t]

\* C15: concurrent calls of Commander.output evict and append under one lock.
\* At most one thread is between acquiring and releasing it; whenever the lock
\* is free the output region holds what the appends made so far give when run
\* one call after the other; and every call that is past its append has
\* contributed exactly one line, the lines of one thread in the order the
\* thread issued them.
C15_OutputIsSerialized ==
    /\ \A t \in Threads :
          pc[t] \in {"was_on_end", "test", "del", "append", "set_focus", "release"}
              => lock = t
    /\ lock = "none" => body = OneByOne(appended).body
    /\ \A t \in Threads :
          LinesOf(t) = [k \in 1..Contributed(t) |->
                           styled_line(ThreadText(t, k), ThreadStyle(t))]

\* A background thread waits for the lock while the thread of the run loop is
\* about to evict; three lines have been appended, two of them by one thread.
C15_Witness ==
    /\ lock = "U" /\ pc["U"] = "del"
    /\ pc["R"] = "acquire"
    /\ Len(LinesOf("T")) = 2
    /\ Len(appended) = 3
    /\ Len(body) = 3

====
